---- MODULE Spec2Model ----
(***************************************************************************)
(* A model of inkshed.py: the string transform `slugify`, the date-        *)
(* conditioned key resolver, the configuration merge, the directive        *)
(* formatting pass, the persisted per-subject counter and the run of main  *)
(* with its scoped directory changes.                                      *)
(*                                                                         *)
(* Strings that only flow through the program (paths, configuration        *)
(* values, subjects) are sequences of tokens; a token is a piece of        *)
(* literal text or a placeholder such as "{number}".  The strings slugify  *)
(* looks into are sequences of characters.                                 *)
(***************************************************************************)
EXTENDS Integers, Sequences, FiniteSets, TLC

VARIABLES
    pc,         \* per process: the position in the code
    cwd,        \* per process: os.getcwd()
    subject,    \* per process: context['subject'] of the counter call
    config,     \* per process: the local `config` of context_from_current_dir
    ret,        \* per process: what context_from_current_dir returned
    store,      \* per directory: the file .inkshed.pickle
    calls,      \* history: number of counter calls begun, per subject
    prevStore,  \* history: per process, the store as it was when the call began
    overlap,    \* history: a call read the store while another call that had
                \* read it had not yet written it back
    after,      \* per process: where the caller of the counter continues
    slug,       \* slugify: the string given, and the results of one and two calls
    today,      \* datetime.datetime.today(): a date <<y, m, d>> and seconds into it
    dated,      \* parse_special_key: the association list given and the result
    args,       \* parse_args(): category, subject, should_cd; whether the
                \* configuration file exists
    cfg,        \* the configuration file: its [DEFAULT], __general__ and
                \* category sections
    ctx,        \* main's context
    err,        \* the exception that ended the run, "" when none did
    fmt,        \* format_context: the keys still to visit, formatted_context,
                \* and (history) the context the pass was called with
    doc,        \* file_contents
    files,      \* the output files written
    saved       \* the original_dir of every cd() entered and not left

counterVars ==
    <<pc, cwd, subject, config, ret, store, calls, prevStore, overlap, after>>
pureVars == <<slug, today, dated>>
mainVars == <<args, cfg, ctx, err, fmt, doc, files, saved>>
vars == <<counterVars, pureVars, mainVars>>

\* what the counter leaves alone
notCounter == <<pureVars, mainVars>>

Procs == {1, 2}

----------------------------------------------------------------------------
(* The values the variables of one part of the program keep in a           *)
(* specification of another part.                                          *)

NoData == [s \in {} |-> 0]
Absent == [state |-> "absent", data |-> NoData]
NoRet == [number |-> 0]
NoSlug == [step |-> 0, s |-> <<>>, once |-> <<>>, twice |-> <<>>]
NoDated == [step |-> 0, assoc |-> <<>>, result |-> [err |-> "", value |-> <<>>]]
NoArgs == [category |-> <<>>, subject |-> <<>>, should_cd |-> FALSE, config_exists |-> TRUE]
NoCfg == [defaults |-> <<>>, sections |-> NoData]

Home == <<"/", "home">>
Notes == <<"/", "home", "notes">>
Work == <<"/", "work">>
Dirs == {Home, Notes, Work}

Skim == <<"Skim">>
Scan == <<"Scan">>
Subjects == {Skim, Scan}

AllIdle == pc = [p \in Procs |-> "idle"]

CounterIdle ==
    /\ config = [p \in Procs |-> NoData]
    /\ ret = [p \in Procs |-> NoRet]
    /\ prevStore = [p \in Procs |-> Absent]
    /\ overlap = FALSE
    /\ after = [p \in Procs |-> "returned"]

SlugIdle == slug = NoSlug

DatedIdle == dated = NoDated

NoFmt == [remaining |-> {}, formatted |-> NoData, raw |-> NoData]

RunIdle ==
    /\ err = ""
    /\ fmt = NoFmt
    /\ doc = <<>>
    /\ files = {}
    /\ saved = <<>>

MainIdle ==
    /\ args = NoArgs
    /\ cfg = NoCfg
    /\ ctx = NoData
    /\ RunIdle

----------------------------------------------------------------------------
(* Bounds of the model. *)

MaxCalls == 3       \* counter calls per subject
MaxBody == 3        \* characters of a slugify input after its leading separators
MaxPad == 33        \* leading separators of a slugify input
MaxEntries == 3     \* date-tagged entries of one logical key

----------------------------------------------------------------------------
(* AugmentedStr.slugify.  A string is a sequence of characters: "a" and    *)
(* "A" are word characters (\w), "'" is an apostrophe, " " and "-" are     *)
(* characters that are neither.                                            *)

Chars == {"a", "A", "'", " ", "-"}

IsWord(c) == c \in {"a", "A"}
\* the class ['\u2019] of both patterns; "'" stands for either apostrophe
IsApos(c) == c = "'"
\* [^\w'] of the splitter
IsSep(c) == ~IsWord(c) /\ ~IsApos(c)

\* unistr.lower()
Lower(s) == [i \in 1..Len(s) |-> IF s[i] = "A" THEN "a" ELSE s[i]]

\* (?<=\w)['](?=\w): the apostrophe at i stands between two word characters
Possessive(s, i) ==
    /\ IsApos(s[i])
    /\ i > 1 /\ IsWord(s[i - 1])
    /\ i < Len(s) /\ IsWord(s[i + 1])

\* ''.join(normalizer.split(unistr))
Depostrophed(s) == SelectSeq([i \in 1..Len(s) |-> <<s[i], Possessive(s, i)>>],
                             LAMBDA x : ~x[2])

RECURSIVE FirstSep(_, _)
\* the index of the first separator of s at or after i, 0 when there is none
FirstSep(s, i) ==
    IF i > Len(s) THEN 0
    ELSE IF IsSep(s[i]) THEN i
    ELSE FirstSep(s, i + 1)

RECURSIVE Split(_, _)
\* pattern.split(s, maxsplit): at most maxsplit splits, the rest of the
\* string is the last component; maxsplit = 0 is no limit
Split(s, maxsplit) ==
    LET i == FirstSep(s, 1) IN
    IF i = 0 THEN <<s>>
    ELSE IF maxsplit = 1 THEN <<SubSeq(s, 1, i - 1), SubSeq(s, i + 1, Len(s))>>
    ELSE <<SubSeq(s, 1, i - 1)>>
             \o Split(SubSeq(s, i + 1, Len(s)), IF maxsplit = 0 THEN 0 ELSE maxsplit - 1)

RECURSIVE Join(_, _)
\* sep.join(parts)
Join(sep, parts) ==
    IF parts = <<>> THEN <<>>
    ELSE IF Len(parts) = 1 THEN parts[1]
    ELSE parts[1] \o sep \o Join(sep, Tail(parts))

\* re.UNICODE, the flag line 105 hands to split() in the place of maxsplit
RE_UNICODE == 32

\* slugify(sep='-')
Slugify(s) ==
    LET chars == [i \in 1..Len(Depostrophed(Lower(s))) |-> Depostrophed(Lower(s))[i][1]]
        components == Split(chars, RE_UNICODE)
    IN  Join(<<"-">>, SelectSeq(components, LAMBDA c : Len(c) > 0))

RECURSIVE StringsOf(_)
\* the strings over Chars of length n
StringsOf(n) ==
    IF n = 0 THEN {<<>>}
    ELSE {<<c>> \o s : c \in Chars, s \in StringsOf(n - 1)}

Pad(c, k) == [i \in 1..k |-> c]

SlugifyInputs ==
    {Pad(c, k) \o b : c \in {" ", "-"}, k \in 0..MaxPad,
                      b \in UNION {StringsOf(n) : n \in 0..MaxBody}}

InitSlug ==
    /\ \E s \in SlugifyInputs : slug = [NoSlug EXCEPT !.s = s]
    /\ today = [date |-> <<2014, 9, 15>>, secs |-> 0]
    /\ DatedIdle
    /\ AllIdle
    /\ CounterIdle
    /\ cwd = [p \in Procs |-> <<"/", "home">>]
    /\ subject = [p \in Procs |-> <<"Skim">>]
    /\ store = NoData
    /\ calls = NoData
    /\ MainIdle

\* slugify applied to the string
SlugifyOnce ==
    /\ slug.step = 0
    /\ slug' = [slug EXCEPT !.step = 1, !.once = Slugify(slug.s)]
    /\ UNCHANGED <<counterVars, today, dated, mainVars>>

\* slugify applied to its own result
SlugifyTwice ==
    /\ slug.step = 1
    /\ slug' = [slug EXCEPT !.step = 2, !.twice = Slugify(slug.once)]
    /\ UNCHANGED <<counterVars, today, dated, mainVars>>

NextSlug == SlugifyOnce \/ SlugifyTwice

SpecSlug == InitSlug /\ [][NextSlug]_vars

\* C8: slugify is idempotent: slugify(slugify(s)) = slugify(s) for every
\* string s, of any length and with any number of separators.
C8_SlugifyIdempotent == slug.step = 2 => slug.twice = slug.once

----------------------------------------------------------------------------
(* The date-conditioned resolver: parse_special_key.  A date string        *)
(* 'YYYY/M/D' is the triple <<y, m, d>>; a datetime is its proleptic        *)
(* Gregorian day number and the seconds into the day.                      *)

IsLeap(y) == (y % 4 = 0) /\ ((y % 100 # 0) \/ (y % 400 = 0))

DaysInMonth(y, m) ==
    IF m = 2 THEN (IF IsLeap(y) THEN 29 ELSE 28)
    ELSE IF m \in {4, 6, 9, 11} THEN 30 ELSE 31

RECURSIVE DaysBeforeMonth(_, _)
DaysBeforeMonth(y, m) ==
    IF m = 1 THEN 0 ELSE DaysBeforeMonth(y, m - 1) + DaysInMonth(y, m - 1)

DaysBeforeYear(y) ==
    365 * (y - 1) + ((y - 1) \div 4) - ((y - 1) \div 100) + ((y - 1) \div 400)

\* whether strptime(strdate, '%Y/%m/%d') accepts the string
ValidDate(d) ==
    /\ d[1] >= 1
    /\ d[2] \in 1..12
    /\ d[3] >= 1 /\ d[3] <= DaysInMonth(d[1], d[2])

\* datetime.datetime.strptime(strdate, '%Y/%m/%d'): midnight of the day
Strptime(d) ==
    [day |-> DaysBeforeYear(d[1]) + DaysBeforeMonth(d[1], d[2]) + d[3], secs |-> 0]

\* datetime.datetime.today()
Now == [day |-> Strptime(today.date).day, secs |-> today.secs]

\* mutant of DatetimeGreater: >= in the place of >
DatetimeGreaterOrEqual(a, b) ==
    \/ a.day > b.day
    \/ a.day = b.day /\ a.secs >= b.secs

\* date > today, on datetimes
DatetimeGreater(a, b) ==
    \/ a.day > b.day
    \/ a.day = b.day /\ a.secs > b.secs

\* today - date: a timedelta of days and seconds, 0 <= seconds < 86400
Timedelta(a, b) ==
    IF a.secs >= b.secs
    THEN [days |-> a.day - b.day, secs |-> a.secs - b.secs]
    ELSE [days |-> a.day - b.day - 1, secs |-> a.secs - b.secs + 86400]

\* the values of the date-tagged entries, in the order of Python's str
SortedValues == << <<"Scan">>, <<"Skim">>, <<"funky">>, <<"herp">>, <<"outasight">> >>

StrRank(v) == CHOOSE i \in 1..Len(SortedValues) : SortedValues[i] = v

\* x < y on the tuples (timedelta, value) the heap holds
TupleLess(x, y) ==
    \/ x[1].days < y[1].days
    \/ x[1].days = y[1].days /\ x[1].secs < y[1].secs
    \/ x[1] = y[1] /\ StrRank(x[2]) < StrRank(y[2])

RECURSIVE SiftDown(_, _, _)
\* heapq._siftdown(heap, 0, pos), positions counted from 1
SiftDown(heap, pos, newitem) ==
    IF pos > 1 /\ TupleLess(newitem, heap[pos \div 2])
    THEN SiftDown([heap EXCEPT ![pos] = heap[pos \div 2]], pos \div 2, newitem)
    ELSE [heap EXCEPT ![pos] = newitem]

\* heapq.heappush(heap, item)
HeapPush(heap, item) == SiftDown(Append(heap, item), Len(heap) + 1, item)

Resolved(v) == [err |-> "none", value |-> v]
Failed(e) == [err |-> e, value |-> <<>>]

RECURSIVE SpecialKeyLoop(_, _, _)
\* lines 340-353: the loop over the association list from entry i on, and
\* what follows it
SpecialKeyLoop(assoc, i, heap) ==
    IF i > Len(assoc)
    THEN IF heap = <<>> THEN Failed("ValueError: No valid values")
         ELSE Resolved(heap[1][2])
    ELSE IF ~ValidDate(assoc[i][1]) THEN Failed("ValueError: strptime")
    ELSE IF DatetimeGreater(Strptime(assoc[i][1]), Now)
         THEN SpecialKeyLoop(assoc, i + 1, heap)
    ELSE SpecialKeyLoop(assoc, i + 1,
             HeapPush(heap, <<Timedelta(Now, Strptime(assoc[i][1])), assoc[i][2]>>))

\* parse_special_key(association_list)
ParseSpecialKey(assoc) == SpecialKeyLoop(assoc, 1, <<>>)

Dates == {<<1970, 7, 14>>, <<2014, 9, 14>>, <<2014, 9, 15>>, <<2034, 12, 23>>,
          <<2014, 2, 30>>}

Todays == {[date |-> <<2014, 9, 15>>, secs |-> 0],
           [date |-> <<2014, 9, 14>>, secs |-> 3600],
           [date |-> <<1970, 1, 1>>, secs |-> 86399]}

Entries == Dates \X {<<"funky">>, <<"herp">>}

RECURSIVE ListsOf(_, _)
\* the sequences of length n over S
ListsOf(S, n) ==
    IF n = 0 THEN {<<>>}
    ELSE {<<x>> \o l : x \in S, l \in ListsOf(S, n - 1)}

InitDates ==
    /\ today \in Todays
    /\ \E n \in 1..MaxEntries : \E l \in ListsOf(Entries, n) :
           dated = [NoDated EXCEPT !.assoc = l]
    /\ SlugIdle
    /\ AllIdle
    /\ CounterIdle
    /\ cwd = [p \in Procs |-> <<"/", "home">>]
    /\ subject = [p \in Procs |-> <<"Skim">>]
    /\ store = NoData
    /\ calls = NoData
    /\ MainIdle

\* parse_special_key applied to the association list
Resolve ==
    /\ dated.step = 0
    /\ dated' = [dated EXCEPT !.step = 1, !.result = ParseSpecialKey(dated.assoc)]
    /\ UNCHANGED <<counterVars, slug, today, mainVars>>

NextDates == Resolve

SpecDates == InitDates /\ [][NextDates]_vars

\* a <= b on date triples
DateLE(a, b) ==
    \/ a[1] < b[1]
    \/ a[1] = b[1] /\ a[2] < b[2]
    \/ a[1] = b[1] /\ a[2] = b[2] /\ a[3] <= b[3]

Eligible == {i \in 1..Len(dated.assoc) : DateLE(dated.assoc[i][1], today.date)}

AllDatesValid == \A i \in 1..Len(dated.assoc) : ValidDate(dated.assoc[i][1])

\* C3: for a group of date-tagged entries and a current date, the resolver
\* returns the value of an entry whose date is the largest among the dates
\* <= today, never that of an entry dated after today, and fails with an
\* error when no entry has a date <= today.
C3_MostRecentNotFuture ==
    (dated.step = 1 /\ AllDatesValid) =>
        IF Eligible = {}
        THEN dated.result.err = "ValueError: No valid values"
        ELSE /\ dated.result.err = "none"
             /\ \E i \in Eligible :
                   /\ dated.assoc[i][2] = dated.result.value
                   /\ \A j \in Eligible : DateLE(dated.assoc[j][1], dated.assoc[i][1])

C3_Witness ==
    /\ dated.step = 1
    /\ today.date = <<2014, 9, 15>>
    /\ dated.assoc = << <<(<<2034, 12, 23>>), (<<"funky">>)>>,
                        <<(<<1970, 7, 14>>), (<<"funky">>)>>,
                        <<(<<2014, 9, 14>>), (<<"herp">>)>> >>
    /\ dated.result = Resolved(<<"herp">>)

----------------------------------------------------------------------------
(* The configuration merge: parse_config, parse_category, parse_keys.      *)
(* A dict is a function on its keys.  An option of the configuration file  *)
(* is [tag, key, value]: the raw key is `key`, or `(tag) key` when the tag *)
(* is a date and not <<>>.                                                 *)

\* dict.update
Update(d, e) ==
    [k \in DOMAIN d \cup DOMAIN e |-> IF k \in DOMAIN e THEN e[k] ELSE d[k]]

DEFAULTS == [basedir |-> Home, title |-> <<"{number}", " - ", "{subject}">>]

MonthNames == <<"January", "February", "March", "April", "May", "June", "July",
                "August", "September", "October", "November", "December">>

\* format_todays_date(): "{:%B %e, %y}"
FormatTodaysDate ==
    <<MonthNames[today.date[2]], " ">>
        \o (IF today.date[3] < 10 THEN <<" ">> ELSE <<>>)
        \o <<ToString(today.date[3]), ", ">>
        \o (IF today.date[1] % 100 < 10 THEN <<"0">> ELSE <<>>)
        \o <<ToString(today.date[1] % 100)>>

\* global_directives()
GlobalDirectives == [date |-> FormatTodaysDate, extra_content |-> <<>>]

General == <<"__general__">>
DefaultSect == <<"DEFAULT">>

RawKey(o) == <<o.tag, o.key>>

\* ConfigParser.has_section: the DEFAULT section is not acknowledged
HasSection(name) == name \in DOMAIN cfg.sections

\* whether ConfigParser.items(name) returns, and does not raise NoSectionError
CanItems(name) == HasSection(name) \/ name = DefaultSect

\* ConfigParser.items(name): the options of [DEFAULT], overridden and
\* followed by those of the section
Items(name) ==
    LET own == IF HasSection(name) THEN cfg.sections[name] ELSE <<>>
        Own(raw) == CHOOSE i \in 1..Len(own) : RawKey(own[i]) = raw
        Overridden(o) == \E i \in 1..Len(own) : RawKey(own[i]) = RawKey(o)
        InDefaults(o) ==
            \E i \in 1..Len(cfg.defaults) : RawKey(cfg.defaults[i]) = RawKey(o)
    IN  [i \in 1..Len(cfg.defaults) |->
            IF Overridden(cfg.defaults[i]) THEN own[Own(RawKey(cfg.defaults[i]))]
            ELSE cfg.defaults[i]]
        \o SelectSeq(own, LAMBDA o : ~InDefaults(o))

RECURSIVE AsDict(_)
\* the dict of a list of (key, value) pairs: a later pair replaces an earlier
AsDict(options) ==
    IF options = <<>> THEN NoData
    ELSE LET o == options[Len(options)] IN
         Update(AsDict(SubSeq(options, 1, Len(options) - 1)),
                [k \in {o.key} |-> o.value])

\* pat.match(key), line 304
IsSpecial(o) == o.tag # <<>>

\* special_keys[actual_key], lines 315-316
Group(options, k) ==
    LET tagged == SelectSeq(options, LAMBDA o : IsSpecial(o) /\ o.key = k)
    IN  [i \in 1..Len(tagged) |-> <<tagged[i].tag, tagged[i].value>>]

\* parse_keys(category)
ParseKeys(options) ==
    LET normal == AsDict(SelectSeq(options, LAMBDA o : ~IsSpecial(o)))
        special == {options[i].key : i \in {j \in 1..Len(options) : IsSpecial(options[j])}}
        bad == {k \in special : ParseSpecialKey(Group(options, k)).err # "none"}
    IN  IF bad # {}
        THEN [err |-> ParseSpecialKey(Group(options, CHOOSE k \in bad : TRUE)).err,
              dict |-> NoData]
        ELSE [err |-> "none",
              dict |-> Update(normal,
                              [k \in special |-> ParseSpecialKey(Group(options, k)).value])]

\* str.startswith('/')
StartsWithSlash(v) == v # <<>> /\ v[1] = "/"

\* os.path.join(a, b)
PathJoin(a, b) == IF StartsWithSlash(b) THEN b ELSE a \o b

\* parse_category(category, initial_config)
ParseCategory(options, initial) ==
    LET keys == ParseKeys(options)
        basedir == initial["basedir"]
    IN  IF keys.err # "none" THEN keys
        ELSE IF "dir" \in DOMAIN keys.dict
        THEN IF ~StartsWithSlash(keys.dict["dir"])
             THEN [keys EXCEPT !.dict["dir"] = PathJoin(basedir, @)]
             ELSE keys
        ELSE [keys EXCEPT !.dict = Update(@, [k \in {"dir"} |-> basedir])]

\* lines 239-242: the defaults, the general settings, the global directives
GeneralSettings ==
    Update(Update(DEFAULTS, AsDict(Items(General))), GlobalDirectives)

\* line 245: category or initial_config.get('default')
CategoryOr(initial) ==
    IF args.category # <<>> THEN args.category
    ELSE IF "default" \in DOMAIN initial THEN initial["default"] ELSE <<>>

\* lines 251-253: the exception the category check raises; the ValueError
\* is constructed and not raised
CategoryCheck(category) ==
    IF ~HasSection(category) THEN "none" ELSE "none"

\* mutant of WithCategory: the category does not replace what is there
WithCategoryUnder(initial, additions) == Update(additions, initial)

\* line 258: initial_config.update(category_additions)
WithCategory(initial, additions) == Update(initial, additions)

\* line 261: initial_config['subject'] = initial_config.get('subject', category)
WithSubject(c, category) ==
    IF "subject" \in DOMAIN c THEN c ELSE Update(c, [k \in {"subject"} |-> category])

Raised(e) == [err |-> e, ctx |-> NoData]

\* parse_config(args.category, args.config_location)
ParseConfig ==
    IF ~args.config_exists THEN Raised("ValueError: Could not read config")
    ELSE IF ~CanItems(General) THEN Raised("NoSectionError")
    ELSE LET initial == GeneralSettings
             category == CategoryOr(initial)
         IN  IF category = <<>>
             THEN Raised("ValueError: No category given and no default in config")
             ELSE IF CategoryCheck(category) # "none"
             THEN Raised(CategoryCheck(category))
             ELSE IF ~CanItems(category) THEN Raised("NoSectionError")
             ELSE LET additions == ParseCategory(Items(category), initial) IN
                  IF additions.err # "none" THEN Raised(additions.err)
                  ELSE [err |-> "none",
                        ctx |-> WithSubject(WithCategory(initial, additions.dict),
                                            category)]

\* main, lines 426-431
MainParseConfig ==
    /\ pc[1] = "main"
    /\ IF ParseConfig.err # "none"
       THEN /\ err' = ParseConfig.err
            /\ pc' = [pc EXCEPT ![1] = "failed"]
            /\ UNCHANGED ctx
       ELSE /\ ctx' = IF args.subject # <<>>
                      THEN Update(ParseConfig.ctx, [k \in {"subject"} |-> args.subject])
                      ELSE ParseConfig.ctx
            /\ pc' = [pc EXCEPT ![1] = "cd"]
            /\ UNCHANGED err
    /\ UNCHANGED <<cwd, subject, config, ret, store, calls, prevStore, overlap, after,
                   pureVars, args, cfg, fmt, doc, files, saved>>

Engl == <<"engl">>
Ghost == <<"ghost">>

Plain(k, v) == [tag |-> <<>>, key |-> k, value |-> v]
Tagged(d, k, v) == [tag |-> d, key |-> k, value |-> v]

GeneralValues ==
    [k \in {"basedir", "title", "date", "default"} |->
        IF k = "basedir" THEN Work
        ELSE IF k = "default" THEN Engl
        ELSE <<"general ", k>>]

CategoryValues ==
    [k \in {"date", "extra_content", "basedir", "title", "dir"} |->
        IF k = "basedir" THEN Notes
        ELSE IF k = "dir" THEN <<"/", "inksheds">>
        ELSE <<"category ", k>>]

\* the options of the keys of `order` that are in K, in that order
OptionsOf(order, K, values) ==
    LET chosen == SelectSeq(order, LAMBDA k : k \in K)
    IN  [i \in 1..Len(chosen) |-> Plain(chosen[i], values[chosen[i]])]

GeneralSections ==
    {OptionsOf(<<"basedir", "title", "date", "default">>, K, GeneralValues) :
        K \in SUBSET DOMAIN GeneralValues}

DatedOptions ==
    { <<>>,
      <<Tagged(<<1970, 7, 14>>, "date", <<"funky">>),
        Tagged(<<2014, 9, 14>>, "date", <<"herp">>)>>,
      <<Tagged(<<2034, 12, 23>>, "date", <<"outasight">>)>> }

CategorySections ==
    {OptionsOf(<<"date", "extra_content", "basedir", "title", "dir">>, K, CategoryValues)
         \o d :
        K \in SUBSET DOMAIN CategoryValues, d \in DatedOptions}

DefaultSections == {<<>>, <<Plain("author", <<"Eddie">>), Plain("dir", <<"inksheds">>)>>}

InitConfig ==
    /\ pc = [p \in Procs |-> IF p = 1 THEN "main" ELSE "idle"]
    /\ today = [date |-> <<2014, 9, 15>>, secs |-> 0]
    /\ \E c \in {<<>>, Engl, Ghost, DefaultSect}, x \in BOOLEAN :
           args = [category |-> c, subject |-> <<>>, should_cd |-> FALSE,
                   config_exists |-> x]
    /\ \E ds \in DefaultSections, g \in GeneralSections, c \in CategorySections :
           cfg = [defaults |-> ds,
                  sections |-> [n \in {General, Engl} |-> IF n = General THEN g ELSE c]]
    /\ ctx = NoData
    /\ RunIdle
    /\ CounterIdle
    /\ cwd = [p \in Procs |-> Work]
    /\ subject = [p \in Procs |-> Skim]
    /\ store = [d \in Dirs |-> Absent]
    /\ calls = NoData
    /\ SlugIdle
    /\ DatedIdle

NextConfig == MainParseConfig

SpecConfig == InitConfig /\ [][NextConfig]_vars

\* what the category section supplies: its plain and its date-tagged keys
Supplied == ParseKeys(Items(CategoryOr(GeneralSettings))).dict

\* C4: in the context parse_config returns, a value the category section
\* supplies for a key wins over the global directive (date, extra_content)
\* and over the built-in default (basedir, title) for that key, and a global
\* directive wins over everything below the category for its key.
C4_MergePrecedence ==
    pc[1] = "cd" =>
        /\ \A k \in DOMAIN GlobalDirectives \cup DOMAIN DEFAULTS :
              k \in DOMAIN Supplied => ctx[k] = Supplied[k]
        /\ \A k \in DOMAIN GlobalDirectives :
              k \notin DOMAIN Supplied => ctx[k] = GlobalDirectives[k]

C4_Witness ==
    /\ pc[1] = "cd"
    /\ {"date", "title"} \subseteq DOMAIN Supplied
    /\ "extra_content" \notin DOMAIN Supplied
    /\ ctx["date"] = <<"herp">>
    /\ ctx["title"] = <<"category ", "title">>
    /\ ctx["extra_content"] = <<>>
    /\ \E i \in 1..Len(cfg.sections[General]) : cfg.sections[General][i].key = "date"

----------------------------------------------------------------------------
(* The template renderer: format_context and format_template.  A string is *)
(* a sequence of tokens; the token "{k}" is a placeholder for the key k,   *)
(* every other token is literal text.                                      *)

AllKeys == {"basedir", "title", "date", "extra_content", "default", "author",
            "filename", "dir", "subject", "number", "zeroed_number", "nonexistent"}

Placeholder(k) == "{" \o k \o "}"

IsPlaceholder(tok) == \E k \in AllKeys : tok = Placeholder(k)

KeyOf(tok) == CHOOSE k \in AllKeys : tok = Placeholder(k)

\* AugmentedStr(val): number and zeroed_number are integers, the rest strings
Augmented(c) ==
    [k \in DOMAIN c |->
        IF k \in {"number", "zeroed_number"} THEN <<ToString(c[k])>> ELSE c[k]]

\* mutant of Missing: a placeholder without a value is not an error
MissingNone(value, actx) == {}

\* the keys for which value.format(**actx) raises KeyError
Missing(value, actx) ==
    {k \in AllKeys \ DOMAIN actx :
        \E i \in 1..Len(value) : value[i] = Placeholder(k)}

RECURSIVE Substituted(_, _)
\* the text of value.format(**actx); a placeholder without a value is
\* dropped here, and is an error by Missing
Substituted(value, actx) ==
    IF value = <<>> THEN <<>>
    ELSE (IF ~IsPlaceholder(Head(value)) THEN <<Head(value)>>
          ELSE IF KeyOf(Head(value)) \in DOMAIN actx THEN actx[KeyOf(Head(value))]
          ELSE <<>>)
         \o Substituted(Tail(value), actx)

\* mutant of Format: the result is formatted again
FormatAgain(value, actx) == Substituted(Substituted(value, actx), actx)

\* value.format(**augmented_context), line 154
Format(value, actx) == Substituted(value, actx)

NonDirectives == {"dir", "basedir", "date", "number", "zeroed_number"}

BASE_TEMPLATE ==
    <<"% ", "{title}", "\n% ", "{author}", "\n% ", "{date}", "\n\n",
      "{extra_content}", "\n">>

\* main line 435, context.update(additions), and format_context lines
\* 145-148
FormatBegin ==
    /\ pc[1] = "format"
    /\ ctx' = Update(ctx, ret[1])
    /\ fmt' = [remaining |-> DOMAIN ctx', formatted |-> NoData, raw |-> ctx']
    /\ pc' = [pc EXCEPT ![1] = "formatting"]
    /\ UNCHANGED <<cwd, subject, config, ret, store, calls, prevStore, overlap, after,
                   pureVars, args, cfg, err, doc, files, saved>>

\* one round of the loop of lines 151-154, the keys in the order the dict
\* gives them
FormatKey ==
    /\ pc[1] = "formatting"
    /\ \E k \in fmt.remaining :
          IF k \in NonDirectives
          THEN /\ fmt' = [fmt EXCEPT !.remaining = @ \ {k}]
               /\ UNCHANGED <<pc, err>>
          ELSE IF Missing(Augmented(ctx)[k], Augmented(ctx)) # {}
          THEN /\ err' = "KeyError: format_context"
               /\ pc' = [pc EXCEPT ![1] = "failed"]
               /\ UNCHANGED fmt
          ELSE /\ fmt' = [fmt EXCEPT
                             !.remaining = @ \ {k},
                             !.formatted =
                                 Update(@, [j \in {k} |->
                                               Format(Augmented(ctx)[k], Augmented(ctx))])]
               /\ UNCHANGED <<pc, err>>
    /\ UNCHANGED <<cwd, subject, config, ret, store, calls, prevStore, overlap, after,
                   pureVars, args, cfg, ctx, doc, files, saved>>

\* line 156 and main line 436, context.update(format_context(context))
FormatEnd ==
    /\ pc[1] = "formatting"
    /\ fmt.remaining = {}
    /\ ctx' = Update(ctx, fmt.formatted)
    /\ pc' = [pc EXCEPT ![1] = "template"]
    /\ UNCHANGED <<cwd, subject, config, ret, store, calls, prevStore, overlap, after,
                   pureVars, args, cfg, err, fmt, doc, files, saved>>

\* format_template(context), main line 437
FormatTemplate ==
    /\ pc[1] = "template"
    /\ IF Missing(BASE_TEMPLATE, Augmented(ctx)) # {}
       THEN /\ err' = "KeyError: format_template"
            /\ pc' = [pc EXCEPT ![1] = "failed"]
            /\ UNCHANGED doc
       ELSE /\ doc' = Format(BASE_TEMPLATE, Augmented(ctx))
            /\ pc' = [pc EXCEPT ![1] = "start"]
            /\ UNCHANGED err
    /\ UNCHANGED <<cwd, subject, config, ret, store, calls, prevStore, overlap, after,
                   pureVars, args, cfg, ctx, fmt, files, saved>>

TitleValues == { <<"{number}", " - ", "{subject}">>, <<"{author}">>, <<"{title}">> }
AuthorValues == { <<"Eddie">>, <<"by ", "{subject}">>, <<"{filename}">>,
                  <<"{nonexistent}">> }
SubjectValues == { <<"Skim">>, <<"{date}">>, <<"{title}">> }
FilenameValues == { <<"{subject}", "-", "{zeroed_number}">>, <<"{author}">> }

FormatContexts ==
    {[title |-> t, author |-> a, subject |-> s, filename |-> f,
      date |-> <<"September", " ", "15", ", ", "14">>, extra_content |-> <<>>,
      basedir |-> Home, dir |-> Notes] :
        t \in TitleValues, a \in AuthorValues, s \in SubjectValues,
        f \in FilenameValues}

InitFormat ==
    /\ pc = [p \in Procs |-> IF p = 1 THEN "format" ELSE "idle"]
    /\ ctx \in FormatContexts
    /\ ret = [p \in Procs |-> [number |-> 3, zeroed_number |-> 2]]
    /\ config = [p \in Procs |-> NoData]
    /\ prevStore = [p \in Procs |-> Absent]
    /\ overlap = FALSE
    /\ after = [p \in Procs |-> "returned"]
    /\ cwd = [p \in Procs |-> Notes]
    /\ subject = [p \in Procs |-> Skim]
    /\ store = [d \in Dirs |-> Absent]
    /\ calls = NoData
    /\ today = [date |-> <<2014, 9, 15>>, secs |-> 0]
    /\ SlugIdle
    /\ DatedIdle
    /\ args = NoArgs
    /\ cfg = NoCfg
    /\ RunIdle

NextFormat == FormatBegin \/ FormatKey \/ FormatEnd \/ FormatTemplate

SpecFormat == InitFormat /\ [][NextFormat]_vars

RECURSIVE Flattened(_)
\* the concatenation of a sequence of strings
Flattened(parts) ==
    IF parts = <<>> THEN <<>> ELSE Head(parts) \o Flattened(Tail(parts))

\* the string v with every placeholder replaced, once, by the value the
\* context c gives its key
ReplacedOnce(v, c) ==
    Flattened([i \in 1..Len(v) |->
                  IF IsPlaceholder(v[i]) THEN Augmented(c)[KeyOf(v[i])] ELSE <<v[i]>>])

Occurs(tok, v) == \E i \in 1..Len(v) : v[i] = tok

Directives(c) == DOMAIN c \ NonDirectives

\* C9: the directive formatting pass is single-pass. Whatever the order of
\* the keys, every directive formatted so far is its value in the context
\* the pass was called with, each placeholder replaced once by the value
\* that context gives it; so when A references {B} and B's value there
\* references {C}, the formatted A holds the placeholder {C} unexpanded,
\* and so does the document when A is one of its fields.
C9_SinglePass ==
    /\ \A a \in DOMAIN fmt.formatted :
          fmt.formatted[a] = ReplacedOnce(fmt.raw[a], fmt.raw)
    /\ pc[1] \in {"template", "start"} =>
          \A a \in Directives(fmt.raw) :
              /\ ctx[a] = ReplacedOnce(fmt.raw[a], fmt.raw)
              /\ \A b, c \in DOMAIN fmt.raw :
                    (Occurs(Placeholder(b), fmt.raw[a])
                        /\ b \notin {"number", "zeroed_number"}
                        /\ Occurs(Placeholder(c), fmt.raw[b]))
                    => /\ Occurs(Placeholder(c), ctx[a])
                       /\ (pc[1] = "start" /\ Occurs(Placeholder(a), BASE_TEMPLATE))
                             => Occurs(Placeholder(c), doc)

C9_Witness ==
    /\ pc[1] = "start"
    /\ fmt.raw["title"] = <<"{author}">>
    /\ fmt.raw["author"] = <<"by ", "{subject}">>
    /\ fmt.raw["subject"] = <<"Skim">>
    /\ ctx["title"] = <<"by ", "{subject}">>
    /\ ctx["author"] = <<"by ", "Skim">>
    /\ Occurs("{subject}", doc)

----------------------------------------------------------------------------
(* The persisted counter: context_from_current_dir. *)

Truncated == [state |-> "empty", data |-> NoData]
Pickled(c) == [state |-> "data", data |-> c]

\* os.path.exists(filename), filename relative to the working directory
Exists(d) == store[d].state # "absent"

\* config = {subject: {'number': 0}}
InitialConfig(s) == [t \in {s} |-> [number |-> 0]]

\* mutants of GetAdditions: the entry is always created afresh; the other
\* subjects' entries are dropped
GetAdditionsFresh(c, s) ==
    [t \in DOMAIN c \cup {s} |-> IF t = s THEN [number |-> 0] ELSE c[t]]

GetAdditionsOnly(c, s) ==
    [t \in {s} |-> IF s \in DOMAIN c THEN c[s] ELSE [number |-> 0]]

\* additions = config.get(subject, {'number': 0}); config[subject] = additions
GetAdditions(c, s) ==
    IF s \in DOMAIN c THEN c
    ELSE [t \in DOMAIN c \cup {s} |-> IF t = s THEN [number |-> 0] ELSE c[t]]

\* mutant of Incremented: the increment is lost
IncrementedNot(c, s) == c

\* additions['number'] += 1, additions being config[subject] itself
Incremented(c, s) == [c EXCEPT ![s].number = @ + 1]

\* additions['zeroed_number'] = additions['number'] - 1, on the same object
WithZeroed(c, s) ==
    [c EXCEPT ![s] = [number |-> c[s].number, zeroed_number |-> c[s].number - 1]]

\* another call in the same directory has read the store and not written it back
OtherMidway(p) ==
    \E q \in Procs \ {p} : cwd[q] = cwd[p] /\ pc[q] \in {"open", "dump"}

\* lines 364-371: the store does not exist, or it does and is opened next
CheckStore(p, s, cont) ==
    /\ subject' = [subject EXCEPT ![p] = s]
    /\ after' = [after EXCEPT ![p] = cont]
    /\ calls' = [calls EXCEPT ![s] = @ + 1]
    /\ prevStore' = [prevStore EXCEPT ![p] = store[cwd[p]]]
    /\ ret' = [ret EXCEPT ![p] = NoRet]
    /\ IF Exists(cwd[p])
       THEN /\ pc' = [pc EXCEPT ![p] = "load"]
            /\ UNCHANGED <<config, overlap>>
       ELSE /\ pc' = [pc EXCEPT ![p] = "open"]
            /\ config' = [config EXCEPT ![p] = InitialConfig(s)]
            /\ overlap' = (overlap \/ OtherMidway(p))
    /\ UNCHANGED <<cwd, store, notCounter>>

\* lines 373-374: cPickle.load; a file another run has truncated and not yet
\* written holds no pickle, and the load raises EOFError
Load(p) ==
    /\ pc[p] = "load"
    /\ IF store[cwd[p]].state = "data"
       THEN /\ pc' = [pc EXCEPT ![p] = "open"]
            /\ config' = [config EXCEPT ![p] = store[cwd[p]].data]
            /\ overlap' = (overlap \/ OtherMidway(p))
       ELSE /\ pc' = [pc EXCEPT ![p] = "crashed"]
            /\ UNCHANGED <<config, overlap>>
    /\ UNCHANGED <<cwd, subject, ret, store, calls, prevStore, after, notCounter>>

\* lines 378-386: the entry is fetched or created, incremented, and the file
\* is opened 'wb', which truncates it
OpenForWrite(p) ==
    /\ pc[p] = "open"
    /\ config' = [config EXCEPT
                     ![p] = Incremented(GetAdditions(config[p], subject[p]), subject[p])]
    /\ store' = [store EXCEPT ![cwd[p]] = Truncated]
    /\ pc' = [pc EXCEPT ![p] = "dump"]
    /\ UNCHANGED <<cwd, subject, ret, calls, prevStore, overlap, after, notCounter>>

\* line 387: cPickle.dump(config, f) and the close of the file
Dump(p) ==
    /\ pc[p] = "dump"
    /\ store' = [store EXCEPT ![cwd[p]] = Pickled(config[p])]
    /\ pc' = [pc EXCEPT ![p] = "written"]
    /\ UNCHANGED <<cwd, subject, config, ret, calls, prevStore, overlap, after, notCounter>>

\* lines 390-392: zeroed_number is added after the dump, and additions returned
Return(p) ==
    /\ pc[p] = "written"
    /\ config' = [config EXCEPT ![p] = WithZeroed(config[p], subject[p])]
    /\ ret' = [ret EXCEPT ![p] = WithZeroed(config[p], subject[p])[subject[p]]]
    /\ pc' = [pc EXCEPT ![p] = after[p]]
    /\ UNCHANGED <<cwd, subject, store, calls, prevStore, overlap, after, notCounter>>

\* the count the file f records for subject t, 0 when it records none
Count(f, t) == IF t \in DOMAIN f.data THEN f.data[t].number ELSE 0

\* the files f and g record the same for subject t
SameEntry(f, g, t) ==
    /\ (t \in DOMAIN f.data) <=> (t \in DOMAIN g.data)
    /\ t \in DOMAIN f.data => f.data[t] = g.data[t]

----------------------------------------------------------------------------
(* Sequential calls of the counter in one directory, from a store that     *)
(* does not exist.                                                         *)

InitSeq ==
    /\ AllIdle
    /\ CounterIdle
    /\ cwd = [p \in Procs |-> Notes]
    /\ subject = [p \in Procs |-> Skim]
    /\ calls = [s \in Subjects |-> 0]
    /\ store = [d \in Dirs |-> Absent]
    /\ SlugIdle
    /\ today = [date |-> <<2014, 9, 15>>, secs |-> 0]
    /\ DatedIdle
    /\ MainIdle

SeqCall ==
    \E s \in Subjects :
        /\ pc[1] \in {"idle", "returned"}
        /\ calls[s] < MaxCalls
        /\ CheckStore(1, s, "returned")

NextSeq == SeqCall \/ Load(1) \/ OpenForWrite(1) \/ Dump(1) \/ Return(1)

SpecSeq == InitSeq /\ [][NextSeq]_vars

\* C1: from a store that does not exist, the n-th sequential call for a
\* subject returns number = n and zeroed_number = n - 1, the store on disk
\* after the call records number = n for the subject, and no store on disk
\* ever records zeroed_number.
C1_NthCall ==
    /\ pc[1] = "returned" =>
          LET n == calls[subject[1]] IN
          /\ ret[1] = [number |-> n, zeroed_number |-> n - 1]
          /\ store[cwd[1]].state = "data"
          /\ subject[1] \in DOMAIN store[cwd[1]].data
          /\ store[cwd[1]].data[subject[1]].number = n
    /\ \A d \in Dirs : \A t \in DOMAIN store[d].data :
          DOMAIN store[d].data[t] = {"number"}

C1_Witness ==
    /\ pc[1] = "returned"
    /\ subject[1] = Skim
    /\ calls[Skim] = 3
    /\ ret[1] = [number |-> 3, zeroed_number |-> 2]
    /\ calls[Scan] = 1

\* C10: a sequential call for subject S leaves the persisted entry of every
\* other subject as it was when the call began (also when S is created by
\* the call), and between calls each subject's persisted count is the number
\* of calls made for it.
C10_OtherSubjectsUnchanged ==
    /\ pc[1] = "returned" =>
          \A t \in Subjects \ {subject[1]} :
              SameEntry(store[cwd[1]], prevStore[1], t)
    /\ pc[1] \in {"idle", "returned"} =>
          \A t \in Subjects : Count(store[cwd[1]], t) = calls[t]

C10_Witness ==
    /\ pc[1] = "returned"
    /\ subject[1] = Scan
    /\ prevStore[1].state = "data"
    /\ Scan \notin DOMAIN prevStore[1].data
    /\ Count(store[cwd[1]], Skim) = 2
    /\ Count(store[cwd[1]], Scan) = 1

----------------------------------------------------------------------------
(* Two runs of the counter in one directory, their file operations         *)
(* interleaved in every order.                                             *)

InitRace ==
    /\ AllIdle
    /\ CounterIdle
    /\ cwd = [p \in Procs |-> Notes]
    /\ subject = [p \in Procs |-> Skim]
    /\ SlugIdle
    /\ today = [date |-> <<2014, 9, 15>>, secs |-> 0]
    /\ DatedIdle
    /\ MainIdle
    /\ \/ /\ store = [d \in Dirs |-> Absent]
          /\ calls = [s \in Subjects |-> 0]
       \/ /\ store = [d \in Dirs |->
                        IF d = Notes THEN Pickled(Skim :> [number |-> 1]) ELSE Absent]
          /\ calls = [s \in Subjects |-> IF s = Skim THEN 1 ELSE 0]

RaceCall ==
    \E p \in Procs, s \in Subjects :
        /\ pc[p] = "idle"
        /\ CheckStore(p, s, "returned")

RaceLoad == \E p \in Procs : Load(p)
RaceOpen == \E p \in Procs : OpenForWrite(p)
RaceDump == \E p \in Procs : Dump(p)
RaceReturn == \E p \in Procs : Return(p)

NextRace == RaceCall \/ RaceLoad \/ RaceOpen \/ RaceDump \/ RaceReturn

SpecRace == InitRace /\ [][NextRace]_vars

BothReturned == \A p \in Procs : pc[p] = "returned"

\* C7: the counter takes no lock. When two runs for the same subject in the
\* same directory both read the store before either writes it back, both
\* return the same number and the persisted count ends below the number of
\* runs; when they do not interleave so, the numbers are distinct and the
\* persisted count is the number of runs.
C7_UnlockedRace ==
    (BothReturned /\ subject[1] = subject[2]) =>
        IF overlap
        THEN /\ ret[1].number = ret[2].number
             /\ Count(store[Notes], subject[1]) < calls[subject[1]]
        ELSE /\ ret[1].number # ret[2].number
             /\ Count(store[Notes], subject[1]) = calls[subject[1]]

C7_Witness ==
    /\ BothReturned
    /\ subject[1] = Skim /\ subject[2] = Skim
    /\ ret[1].number = ret[2].number
    /\ Count(store[Notes], Skim) = 1
    /\ calls[Skim] = 2

----------------------------------------------------------------------------
(* A run of main: parse_config, the scoped directory change cd, the        *)
(* counter, the two formatting passes and start_inkshed.                   *)

Sub == <<"/", "work", "sub">>
Existing == Dirs \cup {Sub}

\* the directory os.chdir(d) leads to from the directory cur
Chdir(cur, d) == IF StartsWithSlash(d) THEN d ELSE cur \o d

\* main line 434 and cd lines 189-191: `with cd(context['dir'], stay=...)`
\* up to the yield
MainCd ==
    /\ pc[1] = "cd"
    /\ IF Chdir(cwd[1], ctx["dir"]) \in Existing
       THEN /\ saved' = Append(saved, cwd[1])
            /\ cwd' = [cwd EXCEPT ![1] = Chdir(cwd[1], ctx["dir"])]
            /\ pc' = [pc EXCEPT ![1] = "counter"]
            /\ UNCHANGED err
       ELSE /\ err' = "OSError: chdir"
            /\ pc' = [pc EXCEPT ![1] = "failed"]
            /\ UNCHANGED <<saved, cwd>>
    /\ UNCHANGED <<subject, config, ret, store, calls, prevStore, overlap, after,
                   pureVars, args, cfg, ctx, fmt, doc, files>>

\* main line 435: context_from_current_dir(context) begins
MainCounter ==
    /\ pc[1] = "counter"
    /\ CheckStore(1, ctx["subject"], "format")

\* start_inkshed lines 210-212 and cd lines 189-191: the assertion of
\* get_filename_for_context, and `with cd(directory)` up to the yield
StartInkshed ==
    /\ pc[1] = "start"
    /\ IF ~({"dir", "filename"} \subseteq DOMAIN ctx)
       THEN /\ err' = "AssertionError"
            /\ pc' = [pc EXCEPT ![1] = "failed"]
            /\ UNCHANGED <<saved, cwd>>
       ELSE IF Chdir(cwd[1], ctx["dir"]) \in Existing
       THEN /\ saved' = Append(saved, cwd[1])
            /\ cwd' = [cwd EXCEPT ![1] = Chdir(cwd[1], ctx["dir"])]
            /\ pc' = [pc EXCEPT ![1] = "write"]
            /\ UNCHANGED err
       ELSE /\ err' = "OSError: chdir"
            /\ pc' = [pc EXCEPT ![1] = "failed"]
            /\ UNCHANGED <<saved, cwd>>
    /\ UNCHANGED <<subject, config, ret, store, calls, prevStore, overlap, after,
                   pureVars, args, cfg, ctx, fmt, doc, files>>

\* start_inkshed lines 214-215: the file is written, or open() raises
WriteFile ==
    /\ pc[1] = "write"
    /\ \/ /\ files' = files \cup {[dir |-> cwd[1],
                                    name |-> ctx["filename"] \o <<".md">>,
                                    contents |-> doc]}
          /\ pc' = [pc EXCEPT ![1] = "editor"]
          /\ UNCHANGED err
       \/ /\ err' = "IOError: open"
          /\ pc' = [pc EXCEPT ![1] = "failed"]
          /\ UNCHANGED files
    /\ UNCHANGED <<cwd, subject, config, ret, store, calls, prevStore, overlap, after,
                   pureVars, args, cfg, ctx, fmt, doc, saved>>

\* start_inkshed line 216: subprocess.call returns, or raises OSError when
\* the editor cannot be started
LaunchEditor ==
    /\ pc[1] = "editor"
    /\ \/ /\ pc' = [pc EXCEPT ![1] = "leave_inner"]
          /\ UNCHANGED err
       \/ /\ err' = "OSError: editor"
          /\ pc' = [pc EXCEPT ![1] = "failed"]
    /\ UNCHANGED <<cwd, subject, config, ret, store, calls, prevStore, overlap, after,
                   pureVars, args, cfg, ctx, fmt, doc, files, saved>>

\* cd lines 193-194 for the cd of start_inkshed, which never stays
LeaveInner ==
    /\ pc[1] = "leave_inner"
    /\ cwd' = [cwd EXCEPT ![1] = saved[Len(saved)]]
    /\ saved' = SubSeq(saved, 1, Len(saved) - 1)
    /\ pc' = [pc EXCEPT ![1] = "leave_outer"]
    /\ UNCHANGED <<subject, config, ret, store, calls, prevStore, overlap, after,
                   pureVars, args, cfg, ctx, err, fmt, doc, files>>

\* cd lines 193-194 for the cd of main
LeaveOuter ==
    /\ pc[1] = "leave_outer"
    /\ cwd' = [cwd EXCEPT ![1] = IF args.should_cd THEN @ ELSE saved[Len(saved)]]
    /\ saved' = SubSeq(saved, 1, Len(saved) - 1)
    /\ pc' = [pc EXCEPT ![1] = "done"]
    /\ UNCHANGED <<subject, config, ret, store, calls, prevStore, overlap, after,
                   pureVars, args, cfg, ctx, err, fmt, doc, files>>

GeneralOptions ==
    <<Plain("author", <<"Eddie">>),
      Plain("filename", <<"{subject}", "-", "{zeroed_number}">>),
      Plain("default", Engl)>>

MainConfigs ==
    {[defaults |-> <<>>, sections |-> [n \in {General, Engl} |->
                                         IF n = General THEN g ELSE c]] :
        g \in {GeneralOptions},
        c \in { <<Plain("dir", <<"notes">>), Plain("subject", Skim)>>,
                <<Plain("dir", Notes), Plain("title", <<"{nonexistent}">>)>>,
                <<Plain("dir", <<"/", "nowhere">>)>>,
                <<Plain("dir", Notes), Plain("title", <<"{author}">>),
                  Plain("author", <<"by ", "{subject}">>),
                  Tagged(<<2014, 9, 14>>, "subject", Scan),
                  Tagged(<<2034, 12, 23>>, "subject", Skim)>> }}
    \cup
    {[defaults |-> <<>>, sections |-> [n \in {General, Engl} |->
                                         IF n = General THEN g ELSE c]] :
        g \in { <<Plain("author", <<"Eddie">>), Plain("default", Engl)>>,
                <<Plain("filename", <<"{subject}">>), Plain("default", Engl)>>,
                <<Plain("author", <<"Eddie">>), Plain("filename", <<"{subject}">>),
                  Plain("basedir", <<"sub">>)>> },
        c \in { <<Plain("subject", Skim)>> }}

MainSubjects == Subjects \cup {Engl, Ghost, DefaultSect}

InitMain ==
    /\ pc = [p \in Procs |-> IF p = 1 THEN "main" ELSE "idle"]
    /\ today = [date |-> <<2014, 9, 15>>, secs |-> 0]
    /\ \E c \in {<<>>, Engl, Ghost, DefaultSect}, s \in {<<>>, Scan}, x \in BOOLEAN :
           args = [category |-> c, subject |-> s, should_cd |-> x,
                   config_exists |-> TRUE]
    /\ cfg \in MainConfigs
    /\ ctx = NoData
    /\ RunIdle
    /\ CounterIdle
    /\ cwd = [p \in Procs |-> Work]
    /\ subject = [p \in Procs |-> Skim]
    /\ \E f \in {Absent, Pickled(Skim :> [number |-> 1])} :
           store = [d \in Existing |-> IF d = Notes THEN f ELSE Absent]
    /\ calls = [s \in MainSubjects |-> 0]
    /\ SlugIdle
    /\ DatedIdle

NextMain ==
    \/ MainParseConfig
    \/ MainCd
    \/ MainCounter
    \/ Load(1) \/ OpenForWrite(1) \/ Dump(1) \/ Return(1)
    \/ FormatBegin \/ FormatKey \/ FormatEnd \/ FormatTemplate
    \/ StartInkshed \/ WriteFile \/ LaunchEditor \/ LeaveInner \/ LeaveOuter

SpecMain == InitMain /\ [][NextMain]_vars

StartDir == Work

\* the directory main changes into
RunDir == Chdir(StartDir, ctx["dir"])

Ended == pc[1] \in {"done", "failed"}

\* C2: on every exit path of the block of `with cd(...)`, normal or by an
\* exception, the working directory is again the one it was before the
\* block was entered, unless stay was requested.
C2_CwdRestored == (Ended /\ ~args.should_cd) => cwd[1] = StartDir

\* the requested category, or the configured default, is no section of the
\* configuration
CategoryAbsent ==
    /\ CategoryOr(GeneralSettings) # <<>>
    /\ ~HasSection(CategoryOr(GeneralSettings))

\* C5: when the requested category is absent from the configuration,
\* parse_config fails with the error of its own category check, which names
\* the category, and the run ends before the counter store is read or
\* written and before any output file is created.
C5_AbsentCategoryFails ==
    (CategoryAbsent /\ pc[1] # "main") =>
        /\ pc[1] = "failed"
        /\ err = "ValueError: Configuration lacks section for category"
        /\ \A s \in DOMAIN calls : calls[s] = 0
        /\ \A d \in Existing : store[d].state = "data" => d = Notes /\ DOMAIN store[d].data = {Skim}
        /\ files = {}

\* the subject's counter is one higher on disk than when the run began
Persisted ==
    /\ store[RunDir].state = "data"
    /\ Count(store[RunDir], subject[1]) = Count(prevStore[1], subject[1]) + 1

\* a directive of the context the formatting pass was called with
\* references a key that context does not have
MissingReference ==
    \E k \in Directives(fmt.raw) : \E j \in AllKeys \ DOMAIN fmt.raw :
        Occurs(Placeholder(j), fmt.raw[k])

\* C6: in a run of main the counter is incremented and written to the store
\* before the formatting passes and before the output file is written; and
\* when a directive references a key absent from the context, the run fails
\* in the directive formatting pass, no output file is written, and the
\* persisted counter stays one higher than before the run.
C6_CounterBeforeFile ==
    /\ (files # {} \/ pc[1] \in {"format", "formatting", "template", "start", "write",
                                  "editor", "leave_inner", "leave_outer", "done"})
          => Persisted
    /\ (fmt.raw # NoData /\ MissingReference /\ pc[1] # "formatting") =>
          /\ pc[1] = "failed"
          /\ err = "KeyError: format_context"
          /\ files = {}
          /\ Persisted

C6_Witness ==
    /\ pc[1] = "failed"
    /\ err = "KeyError: format_context"
    /\ fmt.raw["title"] = <<"{nonexistent}">>
    /\ prevStore[1] = Pickled(Skim :> [number |-> 1])
    /\ store[Notes] = Pickled((Skim :> [number |-> 1]) @@ (Scan :> [number |-> 1]))
    /\ files = {}

====
